---- MODULE Spec2Model ----
(***************************************************************************)
(* PoissonGenerator::GeneratePoissonPoints (src/poisson-grid.h), the       *)
(* grid-accelerated Poisson-disk sampler, as a state machine.              *)
(*                                                                         *)
(* Numbers.  A float is held as an integer count of 1/Scale, Scale a power *)
(* of two.  Every input of the model (the MinDist argument, the values the *)
(* generator returns) is a small dyadic rational, so every sum and product *)
(* the code forms on them is exact in IEEE single precision, and the       *)
(* integer arithmetic below is the code's arithmetic, not a rounding of    *)
(* it.  sqrt is only taken where its value is decided exactly              *)
(* (AutoMinDist on perfect squares, GridSize by comparing squares).        *)
(*                                                                         *)
(* Undefined behaviour.  Insert does m_Grid[G.x][G.y] = P without a bounds *)
(* check.  An out-of-range index is a write outside the vector: the build  *)
(* may lose the write (it lands in padding or foreign memory and the run   *)
(* goes on with the grid as it was) or stop the run (pc = "Crashed").      *)
(* Both are outcomes of the action.  float -> int of inf or NaN (MinDist   *)
(* 0 or NaN) yields INT_MIN or INT_MAX and a grid that cannot be           *)
(* allocated, or 0 and a seed written outside an empty grid: the call      *)
(* never gets past its first Insert, pc = "Crashed".                       *)
(*                                                                         *)
(* State.  The locals of one call are the fields of the record run, named  *)
(* as in the source.  twin is a second call with the same arguments; under *)
(* Spec it is never started, under PairSpec both calls are fed the same    *)
(* draws.                                                                  *)
(***************************************************************************)
EXTENDS Integers, Sequences, FiniteSets, TLC

\* ---------------------------------------------------------------- bounds
\* NumPoints ranges over 0..MaxPoints, NewPointsCount over -1..MaxAttempts.
MaxPoints == 4
MaxAttempts == 2

\* ------------------------------------------------------------- fixed point
\* One unit of the lattice is 1/Scale.
Scale == 4 * 4

\* The values RandomFloat() returns in the model: 0, 1/2, 3/4 (all in [0,1)).
FloatDraws == {0, Scale \div 2, (3 * Scale) \div 4}

\* The values RandomFloat() returns for R1, the radius draw: 0 and 1/2.
RadiusDraws == {0, Scale \div 2}

\* The MinDist arguments of the model: -1 (the default), 0, 1/2, 1, 2.
MinDistArgs == {-Scale, 0, Scale \div 2, Scale, 2 * Scale}

\* The result of 0/0 in line 204 (NumPoints = 0): no lattice value is negative
\* after the derivation, so -1 stands for NaN.
NaN == -1

\* number of adjacent cells IsInNeighbourhood looks at (const int D = 5)
D == 5

\* int(f) of a float f = a/b, b > 0: truncation toward zero.
TruncDiv(a, b) == IF a >= 0 THEN a \div b ELSE -((-a) \div b)

\* ------------------------------------------------------------------ sPoint
\* sPoint(): the default point, the grid's empty cell.
NoPoint == [x |-> 0, y |-> 0, m_Valid |-> FALSE]

\* sPoint(X, Y)
sPoint(X, Y) == [x |-> X, y |-> Y, m_Valid |-> TRUE]

\* x >= 0 && y >= 0 && x <= 1 && y <= 1
IsInRectangle(P) == P.x >= 0 /\ P.y >= 0 /\ P.x <= Scale /\ P.y <= Scale

\* fx*fx + fy*fy <= 0.25f with fx = x - 0.5f, fy = y - 0.5f; both sides times 4*Scale^2
IsInCircle(P) ==
    LET fx == 2 * P.x - Scale
        fy == 2 * P.y - Scale
    IN  fx * fx + fy * fy <= Scale * Scale

\* (x - P.x)^2 + (y - P.y)^2, in units of 1/Scale^2
Dist2(P, Q) == (P.x - Q.x) * (P.x - Q.x) + (P.y - Q.y) * (P.y - Q.y)

\* Mutant of InDomain: the Circle flag is ignored, the square is always used.
InDomainSquareOnly(circle, P) == IsInRectangle(P)

\* Circle ? P.IsInCircle() : P.IsInRectangle()
InDomain(circle, P) == IF circle THEN IsInCircle(P) ELSE IsInRectangle(P)

\* ------------------------------------------------------------------- sGrid
\* sGrid(W, H): m_H rows of m_W default points.
NewGrid(W, H) == [r \in 0..(H - 1) |-> [c \in 0..(W - 1) |-> NoPoint]]

\* { int(P.x * m_W), int(P.y * m_H) }
GridPoint(W, H, P) ==
    [x |-> TruncDiv(P.x * W, Scale), y |-> TruncDiv(P.y * H, Scale)]

\* Whether m_Grid[G.x][G.y] names an element of the vectors.
InGrid(grid, G) == G.x \in DOMAIN grid /\ G.y \in DOMAIN grid[G.x]

\* Insert: m_Grid[G.x][G.y] = P.  The set of outcomes: the grid after the
\* write and whether the run goes on.  An index outside the vectors is
\* undefined behaviour: the write is lost, or the run stops.
Insert(grid, W, H, P) ==
    LET G == GridPoint(W, H, P)
    IN  IF InGrid(grid, G)
        THEN {[grid |-> [grid EXCEPT ![G.x][G.y] = P], alive |-> TRUE]}
        ELSE {[grid |-> grid, alive |-> TRUE], [grid |-> grid, alive |-> FALSE]}

\* Mutant of IsInNeighbourhood: the range test is off by one (i > 0, j > 0),
\* row 0 and column 0 are never looked at.
IsInNeighbourhoodOffByOne(grid, W, H, Point, MinDist2) ==
    LET G == GridPoint(W, H, Point)
    IN  \E i \in (G.x - D)..(G.x + D - 1), j \in (G.y - D)..(G.y + D - 1) :
            /\ i > 0 /\ i < W /\ j > 0 /\ j < H
            /\ grid[i][j].m_Valid
            /\ Dist2(grid[i][j], Point) < MinDist2

\* IsInNeighbourhood: some in-range cell of the window [G-D, G+D) holds a
\* valid point closer than MinDist2.
IsInNeighbourhood(grid, W, H, Point, MinDist2) ==
    LET G == GridPoint(W, H, Point)
    IN  \E i \in (G.x - D)..(G.x + D - 1), j \in (G.y - D)..(G.y + D - 1) :
            /\ i >= 0 /\ i < W /\ j >= 0 /\ j < H
            /\ grid[i][j].m_Valid
            /\ Dist2(grid[i][j], Point) < MinDist2

\* ------------------------------------------------------------- std::vector
\* Mutant of PushBack: the point is put in front.
PushFront(v, P) == <<P>> \o v

\* v.push_back(P)
PushBack(v, P) == Append(v, P)

\* --------------------------------------------------------------- PopRandom
\* Points after iter_swap(begin + Idx, end - 1); pop_back().  Idx is 0-based.
PopRandomRest(Points, Idx) ==
    LET n == Len(Points)
        swapped == [Points EXCEPT ![Idx + 1] = Points[n], ![n] = Points[Idx + 1]]
    IN  SubSeq(swapped, 1, n - 1)

\* ----------------------------------------------- GenerateRandomPointAround
\* Radius = MinDist * (R1 + 1); C = 2*r - 1; S = 2*r - 1;
\* X = P.x + Radius * C; Y = P.y + Radius * S.  The products are exact on
\* the model's draws (Scale*Scale divides them).
GenerateRandomPointAround(P, minDist, r1, rc, rs) ==
    LET Radius == minDist * (r1 + Scale)
        C == 2 * rc - Scale
        S == 2 * rs - Scale
    IN  sPoint(P.x + TruncDiv(Radius * C, Scale * Scale),
               P.y + TruncDiv(Radius * S, Scale * Scale))

\* ------------------------------------------------- GeneratePoissonPoints
\* Whether n is a square whose root divides Scale, so that sqrt(n)/n is a
\* lattice value.
HasExactRoot(n) == \E r \in 1..Scale : r * r = n /\ Scale % r = 0

\* sqrt(float(NumPoints)) / float(NumPoints): 0/0 = NaN for 0.
AutoMinDist(n) ==
    IF n = 0 THEN NaN
    ELSE LET r == CHOOSE q \in 1..Scale : q * q = n IN Scale \div r

\* Mutant of DeriveMinDist: the test is MinDist <= 0.0f (where the derived
\* value is a lattice value).
DeriveMinDistNonPositive(n, minDist) ==
    IF minDist <= 0 /\ (n = 0 \/ HasExactRoot(n)) THEN AutoMinDist(n) ELSE minDist

\* if (MinDist < 0.0f) MinDist = sqrt(float(NumPoints)) / float(NumPoints);
DeriveMinDist(n, minDist) == IF minDist < 0 THEN AutoMinDist(n) ELSE minDist

\* (int)ceil(1.0f / CellSize), CellSize = MinDist / sqrt(2.0f): the least W
\* with W >= sqrt(2)/MinDist, i.e. (W * MinDist)^2 >= 2.
GridSize(minDist) ==
    CHOOSE W \in 1..(2 * Scale) :
        /\ (W * minDist) * (W * minDist) >= 2 * Scale * Scale
        /\ \A V \in 1..(W - 1) : (V * minDist) * (V * minDist) < 2 * Scale * Scale

\* Mutant of ForCondition: the test is i <= NewPointsCount.
ForConditionInclusive(i, k) == i <= k

\* for ( int i = 0; i < NewPointsCount; i++ ): the loop's test
ForCondition(i, k) == i < k

\* !ProcessList.empty() && SamplePoints.size() < NumPoints
LoopCondition(list, out, n) == list # <<>> /\ Len(out) < n

VARIABLES
    NumPoints,        \* size_t NumPoints
    NewPointsCount,   \* int NewPointsCount
    Circle,           \* bool Circle
    MinDistArg,       \* float MinDist as passed
    run,              \* the locals of the call
    twin              \* the locals of a second call with the same arguments

params == <<NumPoints, NewPointsCount, Circle, MinDistArg>>
vars == <<NumPoints, NewPointsCount, Circle, MinDistArg, run, twin>>

\* The locals on entry.  rngUsed, pops and observed are history: whether the
\* generator was drawn from, the number of PopRandom calls, and SamplePoints
\* as it was at the end of each pass of the main loop.
Entry(md) ==
    [MinDist |-> md, MinDist2 |-> 0, GridW |-> 0, GridH |-> 0,
     m_Grid |-> NewGrid(0, 0), SamplePoints |-> <<>>, ProcessList |-> <<>>,
     FirstPoint |-> NoPoint, Point |-> NoPoint, i |-> 0, pc |-> "Setup",
     rngUsed |-> FALSE, pops |-> 0, observed |-> <<>>]

\* The arguments of a call: MinDist < 0 is paired with the NumPoints whose
\* derived distance is a lattice value (or NaN).
ValidCall(n, k, c, md) ==
    /\ n \in 0..MaxPoints
    /\ k \in -1..MaxAttempts
    /\ c \in BOOLEAN
    /\ md \in MinDistArgs
    /\ md < 0 => (n = 0 \/ HasExactRoot(n))

Init ==
    /\ \E n \in 0..MaxPoints, k \in -1..MaxAttempts, c \in BOOLEAN, md \in MinDistArgs :
          /\ ValidCall(n, k, c, md)
          /\ NumPoints = n
          /\ NewPointsCount = k
          /\ Circle = c
          /\ MinDistArg = md
    /\ run = Entry(MinDistArg)
    /\ twin = Entry(MinDistArg)

\* ---- the steps of a call, each the set of states it may leave r in ----

\* Lines 203-216: derive MinDist, MinDist2, the grid dimensions, build the
\* grid.  MinDist 0 or NaN: no grid, the call ends here.
SetupOf(r) ==
    LET md == DeriveMinDist(NumPoints, r.MinDist)
    IN  IF md > 0
        THEN {[r EXCEPT !.MinDist = md,
                        !.MinDist2 = md * md,
                        !.GridW = GridSize(md),
                        !.GridH = GridSize(md),
                        !.m_Grid = NewGrid(GridSize(md), GridSize(md)),
                        !.pc = "First"]}
        ELSE {[r EXCEPT !.MinDist = md, !.pc = "Crashed"]}

\* Lines 219-226: one turn of the do-while on the draws rx, ry (which of the
\* two RandomFloat() calls of line 220 is made first is unspecified; every
\* pair is drawn); on leaving it, the containers are updated with the first
\* point.
DrawFirstPointOf(r, rx, ry) ==
    LET P == sPoint(rx, ry)
    IN  IF InDomain(Circle, P)
        THEN {[r EXCEPT !.FirstPoint = P,
                        !.rngUsed = TRUE,
                        !.ProcessList = PushBack(@, P),
                        !.SamplePoints = PushBack(@, P),
                        !.m_Grid = o.grid,
                        !.pc = IF o.alive THEN "While" ELSE "Crashed"] :
                 o \in Insert(r.m_Grid, r.GridW, r.GridH, P)}
        ELSE {[r EXCEPT !.FirstPoint = P, !.rngUsed = TRUE]}

\* Lines 229, 231: the loop goes on; PopRandom on the draw Idx takes the
\* point of this pass.
PopOf(r, Idx) ==
    {[r EXCEPT !.Point = r.ProcessList[Idx + 1],
               !.ProcessList = PopRandomRest(r.ProcessList, Idx),
               !.i = 0,
               !.pops = @ + 1,
               !.rngUsed = TRUE,
               !.pc = "For"]}

\* Lines 233-245: one turn of the for loop on the draws r1, rc, rs.
AttemptOf(r, r1, rc, rs) ==
    LET NewPoint == GenerateRandomPointAround(r.Point, r.MinDist, r1, rc, rs)
        Fits == InDomain(Circle, NewPoint)
    IN  IF Fits /\ ~IsInNeighbourhood(r.m_Grid, r.GridW, r.GridH, NewPoint, r.MinDist2)
        THEN {[r EXCEPT !.ProcessList = PushBack(@, NewPoint),
                        !.SamplePoints = PushBack(@, NewPoint),
                        !.m_Grid = o.grid,
                        !.i = @ + 1,
                        !.rngUsed = TRUE,
                        !.pc = IF o.alive THEN "For" ELSE "Crashed"] :
                 o \in Insert(r.m_Grid, r.GridW, r.GridH, NewPoint)}
        ELSE {[r EXCEPT !.i = @ + 1, !.rngUsed = TRUE]}

\* Line 233, the test fails: the pass is over, Point and i go out of scope,
\* back to line 229.
EndPassOf(r) ==
    {[r EXCEPT !.Point = NoPoint,
               !.i = 0,
               !.observed = Append(@, r.SamplePoints),
               !.pc = "While"]}

\* Lines 229, 248: the loop ends; return SamplePoints.
ReturnOf(r) == {[r EXCEPT !.pc = "Done"]}

\* ---- where each step applies ----
AtSetup(r) == r.pc = "Setup"
AtFirst(r) == r.pc = "First"
AtPop(r) ==
    r.pc = "While" /\ LoopCondition(r.ProcessList, r.SamplePoints, NumPoints)
AtAttempt(r) == r.pc = "For" /\ ForCondition(r.i, NewPointsCount)
AtEndPass(r) == r.pc = "For" /\ ~ForCondition(r.i, NewPointsCount)
AtReturn(r) ==
    r.pc = "While" /\ ~LoopCondition(r.ProcessList, r.SamplePoints, NumPoints)

\* ---- one call ----
Setup ==
    /\ AtSetup(run)
    /\ run' \in SetupOf(run)
    /\ UNCHANGED <<params, twin>>

DrawFirstPoint ==
    /\ AtFirst(run)
    /\ \E rx \in FloatDraws, ry \in FloatDraws : run' \in DrawFirstPointOf(run, rx, ry)
    /\ UNCHANGED <<params, twin>>

Pop ==
    /\ AtPop(run)
    /\ \E Idx \in 0..(Len(run.ProcessList) - 1) : run' \in PopOf(run, Idx)
    /\ UNCHANGED <<params, twin>>

Attempt ==
    /\ AtAttempt(run)
    /\ \E r1 \in RadiusDraws, rc \in FloatDraws, rs \in FloatDraws :
          run' \in AttemptOf(run, r1, rc, rs)
    /\ UNCHANGED <<params, twin>>

EndPass ==
    /\ AtEndPass(run)
    /\ run' \in EndPassOf(run)
    /\ UNCHANGED <<params, twin>>

Return ==
    /\ AtReturn(run)
    /\ run' \in ReturnOf(run)
    /\ UNCHANGED <<params, twin>>

Next == Setup \/ DrawFirstPoint \/ Pop \/ Attempt \/ EndPass \/ Return

Spec == Init /\ [][Next]_vars

\* ---- two calls on one seed ----
\* DefaultPRNG(seed) with the same seed hands both calls the same draws
\* (generateGrid builds DefaultPRNG PRNG(0) for every call).  Each step is
\* taken by the calls that are at it, on the same draws; a call that has
\* stopped stays as it is.
MoveSetup(r) == IF AtSetup(r) THEN SetupOf(r) ELSE {r}
MoveFirst(r, rx, ry) == IF AtFirst(r) THEN DrawFirstPointOf(r, rx, ry) ELSE {r}
MovePop(r, Idx) ==
    IF AtPop(r) /\ Idx < Len(r.ProcessList) THEN PopOf(r, Idx) ELSE {r}
MoveAttempt(r, r1, rc, rs) == IF AtAttempt(r) THEN AttemptOf(r, r1, rc, rs) ELSE {r}
MoveEndPass(r) == IF AtEndPass(r) THEN EndPassOf(r) ELSE {r}
MoveReturn(r) == IF AtReturn(r) THEN ReturnOf(r) ELSE {r}

PairSetup ==
    /\ AtSetup(run) \/ AtSetup(twin)
    /\ run' \in MoveSetup(run)
    /\ twin' \in MoveSetup(twin)
    /\ UNCHANGED params

PairDrawFirstPoint ==
    /\ AtFirst(run) \/ AtFirst(twin)
    /\ \E rx \in FloatDraws, ry \in FloatDraws :
          /\ run' \in MoveFirst(run, rx, ry)
          /\ twin' \in MoveFirst(twin, rx, ry)
    /\ UNCHANGED params

PairPop ==
    /\ AtPop(run) \/ AtPop(twin)
    /\ \E Idx \in 0..(Len(run.ProcessList) + Len(twin.ProcessList)) :
          /\ AtPop(run) => Idx < Len(run.ProcessList)
          /\ AtPop(twin) => Idx < Len(twin.ProcessList)
          /\ run' \in MovePop(run, Idx)
          /\ twin' \in MovePop(twin, Idx)
    /\ UNCHANGED params

PairAttempt ==
    /\ AtAttempt(run) \/ AtAttempt(twin)
    /\ \E r1 \in RadiusDraws, rc \in FloatDraws, rs \in FloatDraws :
          /\ run' \in MoveAttempt(run, r1, rc, rs)
          /\ twin' \in MoveAttempt(twin, r1, rc, rs)
    /\ UNCHANGED params

PairEndPass ==
    /\ AtEndPass(run) \/ AtEndPass(twin)
    /\ run' \in MoveEndPass(run)
    /\ twin' \in MoveEndPass(twin)
    /\ UNCHANGED params

PairReturn ==
    /\ AtReturn(run) \/ AtReturn(twin)
    /\ run' \in MoveReturn(run)
    /\ twin' \in MoveReturn(twin)
    /\ UNCHANGED params

PairNext ==
    PairSetup \/ PairDrawFirstPoint \/ PairPop \/ PairAttempt \/ PairEndPass
        \/ PairReturn

PairSpec == Init /\ [][PairNext]_vars

\* ======================================================================
\* Claims
\* ======================================================================

\* The cells of the grid that hold a valid point.
ValidCells(grid) ==
    {c \in {<<a, b>> : a \in DOMAIN grid, b \in 0..(Cardinality(DOMAIN grid) - 1)} :
        c[2] \in DOMAIN grid[c[1]] /\ grid[c[1]][c[2]].m_Valid}

\* C1: the returned sequence has at most targetCount points.  Stated for
\* targetCount >= 1 (targetCount = 0 is C4's case).  The code tests
\* SamplePoints.size() < NumPoints between passes only, so a pass that
\* accepts several candidates overshoots.
C1_CardinalityBound ==
    (run.pc = "Done" /\ NumPoints >= 1) => Len(run.SamplePoints) <= NumPoints

\* C2: separation invariant: in every reachable state every two distinct
\* points of the output are at squared distance >= minDist^2.
C2_Separation ==
    \A a, b \in 1..Len(run.SamplePoints) :
        a # b => Dist2(run.SamplePoints[a], run.SamplePoints[b]) >= run.MinDist2

\* C3: domain membership: every point of the output satisfies the domain
\* predicate of the chosen shape.
C3_DomainMembership ==
    \A a \in 1..Len(run.SamplePoints) :
        IF Circle THEN IsInCircle(run.SamplePoints[a])
                  ELSE IsInRectangle(run.SamplePoints[a])

\* C3 witness: a call on the disk has returned the seed and an accepted candidate.
C3_Witness == Circle /\ run.pc = "Done" /\ Len(run.SamplePoints) >= 2

\* C4: with targetCount = 0 no draw is made and nothing is put into the
\* grid, the active list or the output.
C4_ZeroTargetEmpty ==
    NumPoints = 0 =>
        /\ ~run.rngUsed
        /\ run.SamplePoints = <<>>
        /\ run.ProcessList = <<>>
        /\ ValidCells(run.m_Grid) = {}

\* C5: determinism: two calls with the same arguments, fed the same draws,
\* return identical output sequences: when one of them returns, so does the
\* other, with the same points in the same order.
C5_Determinism ==
    (run.pc = "Done" \/ twin.pc = "Done") =>
        (twin.pc = run.pc /\ twin.SamplePoints = run.SamplePoints)

IsPrefix(s, t) == Len(s) <= Len(t) /\ SubSeq(t, 1, Len(s)) = s

\* C6 as claimed: the output observed after each pop's pass is a strict
\* prefix of the returned output.
C6_StrictPrefix ==
    run.pc = "Done" =>
        \A n \in 1..Len(run.observed) :
            /\ IsPrefix(run.observed[n], run.SamplePoints)
            /\ Len(run.observed[n]) < Len(run.SamplePoints)

\* C6 amended: in every state, the output observed after each earlier pop's
\* pass is a prefix of the output as it is now (and so of the returned one):
\* points are only appended.  The prefix need not be strict.
C6_PrefixGrowth ==
    \A n \in 1..Len(run.observed) : IsPrefix(run.observed[n], run.SamplePoints)

\* C6 witness: a call has returned after two passes, the first observed
\* output shorter than the returned one, the last one equal to it.
C6_Witness ==
    /\ run.pc = "Done"
    /\ Len(run.observed) >= 2
    /\ Len(run.observed[1]) < Len(run.SamplePoints)
    /\ run.observed[Len(run.observed)] = run.SamplePoints

\* C7: with minDist = 2 the output never holds more than the seed point,
\* whatever targetCount and attemptsPerPoint are: every candidate around the
\* popped seed is outside the domain or closer than minDist to the seed.
C7_ScenarioC ==
    (run.MinDist >= 2 * Scale /\ run.pc \in {"While", "For", "Done"}) =>
        /\ run.SamplePoints = <<run.FirstPoint>>
        /\ run.pc = "For" =>
              \A r1 \in RadiusDraws, rc \in FloatDraws, rs \in FloatDraws :
                  LET c == GenerateRandomPointAround(run.Point, run.MinDist, r1, rc, rs)
                  IN  \/ ~(IF Circle THEN IsInCircle(c) ELSE IsInRectangle(c))
                      \/ Dist2(c, run.FirstPoint) < run.MinDist2

\* C7 witness: a call with minDist = 2 and targetCount >= 2 has popped the
\* seed, tried candidates around it and returned.
C7_Witness ==
    /\ run.MinDist = 2 * Scale
    /\ run.pc = "Done"
    /\ NumPoints >= 2
    /\ NewPointsCount >= 1
    /\ run.pops = 1

\* The run uses sqrt(targetCount)/targetCount as minDist: minDist^2 *
\* targetCount = 1 (NaN for targetCount = 0).
UsesAutoMinDist ==
    IF NumPoints = 0 THEN run.MinDist = NaN
    ELSE run.MinDist > 0 /\ run.MinDist * run.MinDist * NumPoints = Scale * Scale

\* Once a grid is built, cell size, grid dimensions and minDistSquared are
\* those of the minDist in use.
DerivedFromMinDist ==
    run.GridW > 0 =>
        /\ run.MinDist2 = run.MinDist * run.MinDist
        /\ run.GridH = run.GridW
        /\ run.GridW * run.GridW * run.MinDist2 >= 2 * Scale * Scale
        /\ (run.GridW - 1) * (run.GridW - 1) * run.MinDist2 < 2 * Scale * Scale

\* C8 as claimed: every minDist <= 0, 0 included, is replaced by
\* sqrt(targetCount)/targetCount.  Stated for targetCount >= 1, where the
\* derived value is a number.
C8_AutoDeriveNonPositive ==
    (run.pc # "Setup" /\ MinDistArg <= 0 /\ NumPoints >= 1) =>
        (UsesAutoMinDist /\ DerivedFromMinDist)

\* C8 amended: every minDist < 0 is replaced by sqrt(targetCount)/targetCount,
\* which cell size, grid dimensions and minDistSquared are derived from; a
\* minDist >= 0, 0 included, is used as given.
C8_AutoDeriveNegative ==
    run.pc # "Setup" =>
        /\ IF MinDistArg < 0 THEN UsesAutoMinDist ELSE run.MinDist = MinDistArg
        /\ DerivedFromMinDist

\* C8 witness: a call with a negative minDist has built its grid and accepted
\* a candidate.
C8_Witness == MinDistArg < 0 /\ run.GridW > 0 /\ Len(run.SamplePoints) >= 2

\* C9: with attemptsPerPoint <= 0, once the seed is placed the output is the
\* seed alone and the grid holds the seed alone, every pop has taken exactly
\* one point off the active list, the call does not fail, and for
\* targetCount >= 2 it returns after one pop.
C9_NoAttempts ==
    (NewPointsCount <= 0 /\ run.SamplePoints # <<>>) =>
        /\ run.SamplePoints = <<run.FirstPoint>>
        /\ Cardinality(ValidCells(run.m_Grid)) = 1
        /\ run.pops + Len(run.ProcessList) = 1
        /\ run.pc # "Crashed"
        /\ (run.pc = "Done" /\ NumPoints >= 2) => run.pops = 1

\* C9 witness: a call with attemptsPerPoint <= 0 and targetCount >= 2 has
\* popped the seed and returned.
C9_Witness ==
    NewPointsCount <= 0 /\ NumPoints >= 2 /\ run.pc = "Done" /\ run.pops = 1

\* C10: termination of the main loop: once the seed is placed (targetCount
\* >= 1), every point is pushed onto the active list once, so pops + |active
\* list| = |output| and pops < targetCount; a call that has returned left
\* the loop on its condition; and a call that has not returned can take a
\* step.
C10_Termination ==
    (NumPoints >= 1 /\ run.SamplePoints # <<>>) =>
        /\ run.pops + Len(run.ProcessList) = Len(run.SamplePoints)
        /\ run.pops < NumPoints
        /\ run.pc = "Done" =>
              ~LoopCondition(run.ProcessList, run.SamplePoints, NumPoints)
        /\ run.pc = "Done" \/ ENABLED Next

\* C11: write-once grid cells: no two accepted points map to the same cell
\* and Insert never overwrites a valid point, so in every reachable state
\* the number of valid grid cells equals the number of output points.
C11_WriteOnce ==
    Cardinality(ValidCells(run.m_Grid)) = Len(run.SamplePoints)

\* SamplePoints holds a point closer to Point than minDist (squared distance
\* < MinDist2): the exhaustive query.
IsNearOutput(out, Point, MinDist2) ==
    \E a \in 1..Len(out) : Dist2(out[a], Point) < MinDist2

\* C12: the windowed query agrees with the exhaustive one: for every
\* in-domain candidate the for loop can test in this state,
\* IsInNeighbourhood(candidate, minDist^2) is true if and only if some point
\* of the output is at squared distance < minDist^2 from the candidate.
C12_WindowAgrees ==
    AtAttempt(run) =>
        \A r1 \in RadiusDraws, rc \in FloatDraws, rs \in FloatDraws :
            LET c == GenerateRandomPointAround(run.Point, run.MinDist, r1, rc, rs)
            IN  InDomain(Circle, c) =>
                    (IsInNeighbourhood(run.m_Grid, run.GridW, run.GridH, c, run.MinDist2)
                        <=> IsNearOutput(run.SamplePoints, c, run.MinDist2))

\* C13: every Insert writes to an in-range cell: the cell of the seed point
\* and of every accepted candidate, (int(x*W), int(y*H)), has 0 <= i < W and
\* 0 <= j < H.  Every point of SamplePoints has been handed to Insert.
C13_InsertInRange ==
    \A a \in 1..Len(run.SamplePoints) :
        LET G == GridPoint(run.GridW, run.GridH, run.SamplePoints[a])
        IN  G.x >= 0 /\ G.x < run.GridW /\ G.y >= 0 /\ G.y < run.GridH

====
